---------------------------- MODULE Spec2Model ----------------------------
(***************************************************************************)
(* A model of the eframe native run loop (crates/eframe/src/native/run.rs), *)
(* of the callback-scoped event-loop guard (event_loop_context.rs) and of   *)
(* the RON file storage (file_storage.rs).                                  *)
(*                                                                          *)
(* The specifications share the variables: Spec (the run-loop driver),      *)
(* GuardSpec (the thread-local guard), StoreSpec (the key/value store) and  *)
(* RoundTripSpec (the store and a second store on the same path).  Each     *)
(* leaves the other components at their initial value.                      *)
(***************************************************************************)
EXTENDS Integers, Sequences, FiniteSets, TLC

(***************************************************************************)
(* Bounds of the model.                                                     *)
(***************************************************************************)
\* Instants are 0..MaxTime.
MaxTime == 2
\* Frame numbers are 0..MaxFrame.
MaxFrame == 1
\* Scopes a thread has left are counted up to MaxScopes.
MaxScopes == 2
\* The nesting of with_event_loop_context calls a thread attempts.
MaxNesting == 2
MaxBuilds == 2
MaxSizeThreads == 2

Windows == {"w1", "w2"}
NoWindow == "none"
Times == 0..MaxTime
Frames == 0..MaxFrame

VARIABLES
    \* ---- WinitAppWrapper (run.rs) ----
    windows_next_repaint_times, \* HashMap<WindowId, Instant>: a function on a subset of Windows
    control_flow,               \* the ControlFlow last set on the ActiveEventLoop
    now,                        \* Instant::now()
    window,                     \* what winit_app.window(id) / is_minimized() answer, per window
    return_result,              \* WinitAppWrapper::return_result: "Ok" or "Err"
    run_and_return,             \* WinitAppWrapper::run_and_return
    target_windows,             \* cfg!(target_os = "windows") of the build
    phase,                      \* "running", "exit_requested", "exited", "terminated"
    callback_failed,            \* an Application callback has returned Err
    last_effects,               \* what the callback that ran last did to the loop and the process
    save_and_destroy_calls,     \* how often winit_app.save_and_destroy() was called in the run
    last                        \* the callback that ran last, and what it handled

driver_vars == <<windows_next_repaint_times, control_flow, now, window,
                 return_result, run_and_return, target_windows, phase, callback_failed,
                 last_effects, save_and_destroy_calls, last>>

VARIABLES
    \* ---- event_loop_context.rs ----
    CURRENT_EVENT_LOOP,         \* the thread-local Cell, per thread: an event loop or NoLoop
    guards,                     \* per thread, the live EventLoopGuard values (innermost last)
    thread_state,               \* per thread: "running", "unwinding" (a panic), "aborted"
    panic_abort,                \* the build's panic strategy: abort instead of unwind
    scopes_returned,            \* per thread, scopes left by return (counted up to MaxScopes)
    scopes_unwound,             \* per thread, scopes left by a panic (counted up to MaxScopes)
    glast                       \* the guard operation that ran last

guard_vars == <<CURRENT_EVENT_LOOP, guards, thread_state, panic_abort, scopes_returned,
                scopes_unwound, glast>>

VARIABLES
    \* ---- FileStorage (file_storage.rs) ----
    store_state,                \* "none" (not constructed), "live", "dropped"
    kv,                         \* FileStorage::kv: a function on a subset of Keys
    dirty,                      \* FileStorage::dirty
    last_save_join_handle,      \* FileStorage::last_save_join_handle is Some
    flush_pc,                   \* "idle"; "flushing" or "blocked": flush() holds its clone, at the join
    flush_kv,                   \* the clone flush() made of kv
    save_threads,               \* the eframe_persist threads not joined yet, in spawn order
    disk,                       \* the file at ron_filepath
    second_store,               \* a second FileStorage constructed from the same path
    slast                       \* the store operation that ran last

store_vars == <<store_state, kv, dirty, last_save_join_handle, flush_pc, flush_kv,
                save_threads, disk, second_store, slast>>

VARIABLES
    \* ---- the platform callback the driver thread is in (run.rs 187-297) ----
    callback                    \* its name, and how far it is: "platform" (between callbacks),
                                \* "entered" (before its body), "returned" (after its body)

dispatch_vars == <<callback>>

VARIABLES
    \* ---- the cached event loop of with_event_loop (run.rs 19-47, 321-367) ----
    EVENT_LOOP,                 \* thread -> the event loop in the thread-local cell, 0 for None
    loops_created,              \* thread -> event loops with_event_loop has built on it
    loops_failed,               \* thread -> builds that failed in with_event_loop (counted to MaxBuilds)
    process_state,              \* "running", or "exited" after std::process::exit
    launched                    \* what the last run did

launch_vars == <<EVENT_LOOP, loops_created, loops_failed, process_state, launched>>

VARIABLES
    \* ---- one Folder of the file browser and its popup (explorer.rs, list.rs) ----
    size,                       \* Folder::size: "None" or "Some"
    calculating,                \* Folder::calculating
    error,                      \* Folder::error: "None" or "Some"
    size_threads,               \* the threads directory_size has spawned for the folder
    popup                       \* the UI thread in the popup closure, and what it has read

browser_vars == <<size, calculating, error, size_threads, popup>>

vars == <<driver_vars, guard_vars, store_vars, dispatch_vars, launch_vars, browser_vars>>

(***************************************************************************)
(* Helpers.                                                                 *)
(***************************************************************************)
Min2(a, b) == IF a <= b THEN a ELSE b

SetMin(S) == CHOOSE x \in S : \A y \in S : x <= y

Insert(tbl, w, t) == [x \in (DOMAIN tbl) \cup {w} |-> IF x = w THEN t ELSE tbl[x]]

Remove(tbl, w) == [x \in (DOMAIN tbl) \ {w} |-> tbl[x]]

EmptyTable == [x \in {} |-> 0]

(***************************************************************************)
(* ControlFlow and EventResult values.                                      *)
(***************************************************************************)
Wait == [kind |-> "Wait", at |-> 0]
Poll == [kind |-> "Poll", at |-> 0]
WaitUntil(t) == [kind |-> "WaitUntil", at |-> t]

Result(k, w, t) == [kind |-> k, w |-> w, t |-> t]

\* Everything an Application callback can return: Ok(EventResult) or Err.
EventResults ==
    {Result("Wait", NoWindow, 0), Result("Exit", NoWindow, 0), Result("Err", NoWindow, 0)}
    \cup {Result("RepaintNow", w, 0) : w \in Windows}
    \cup {Result("RepaintNext", w, 0) : w \in Windows}
    \cup {Result("RepaintAt", w, t) : w \in Windows, t \in Times}

\* What winit_app.window(id) and window.is_minimized() answer: no window, a window
\* that is not minimized (Some(false), or None, which unwrap_or(false) reads as
\* not minimized), a minimized window.
WindowStates == {"absent", "normal", "minimized"}

\* The windows run_ui_and_paint is called on during a callback: the window of
\* RedrawRequested (run.rs 257) and, on Windows, the window of RepaintNow (89).
Painted(op, win, r) ==
    (IF op = "redraw_requested" THEN {win} ELSE {})
    \cup (IF r.kind = "RepaintNow" /\ target_windows THEN {r.w} ELSE {})

\* What is recorded of a callback: which one, its window, the event result it
\* handled, the frame numbers it compared, the windows it called
\* request_redraw() on, the windows whose entry its retain dropped, the
\* windows it painted and what the synchronous run_ui_and_paint returned
\* ("none" when it was not called; handle_event_result fills it in with
\* SyncOutcome).
Observed(op, win, r, cur, nr, redraws, dropped) ==
    [op |-> op, win |-> win, res |-> r.kind, w |-> r.w, t |-> r.t, cur |-> cur, nr |-> nr,
     redraws |-> redraws, dropped |-> dropped, painted |-> Painted(op, win, r),
     sync |-> "none"]

NoResult == Result("none", NoWindow, 0)

(***************************************************************************)
(* check_redraw_requests (run.rs 144-184).                                  *)
(***************************************************************************)
\* run.rs 149: `if Instant::now() < *repaint_time { return true; }`
IsDue(tbl, w) == ~(now < tbl[w])

\* run.rs 156: `if let Some(window) = self.winit_app.window(*window_id)`
WindowFound(w) == window[w] # "absent"

IsMinimizedNever(w) == FALSE

\* run.rs 158: `window.is_minimized().unwrap_or(false)`
IsMinimized(w) == window[w] = "minimized"

RetainedUnlessMinimized(tbl, w) == ~IsDue(tbl, w) \/ ~IsMinimized(w)

RetainedOnlyIfNotDue(tbl, w) == ~IsDue(tbl, w)

\* The value of the retain closure (run.rs 148-169) for one entry.
Retained(tbl, w) == ~IsDue(tbl, w) \/ (WindowFound(w) /\ ~IsMinimized(w))

\* The table after the retain.
CheckTable(tbl) == [x \in {w \in DOMAIN tbl : Retained(tbl, w)} |-> tbl[x]]

\* The windows window.request_redraw() is called on (run.rs 162).
CheckRedraws(tbl) ==
    {w \in DOMAIN tbl : IsDue(tbl, w) /\ WindowFound(w) /\ ~IsMinimized(w)}

\* The windows whose entry the retain drops (run.rs 160, 167).
CheckDropped(tbl) == {w \in DOMAIN tbl : ~Retained(tbl, w)}

CheckFlowLatest(tbl, flow) ==
    IF DOMAIN tbl = {} THEN flow
    ELSE IF \E w \in DOMAIN tbl : IsDue(tbl, w) THEN Poll
    ELSE WaitUntil(CHOOSE t \in {tbl[w] : w \in DOMAIN tbl} :
                      \A w \in DOMAIN tbl : tbl[w] <= t)

CheckFlowWaitUntilRemaining(tbl, flow) ==
    IF \E w \in DOMAIN tbl : now < tbl[w]
    THEN WaitUntil(SetMin({tbl[w] : w \in {x \in DOMAIN tbl : now < tbl[x]}}))
    ELSE IF DOMAIN tbl = {} THEN flow ELSE Poll

\* The directive after the check: next_repaint_time is the minimum of the
\* values (145), reset to None by any due entry (153), which also sets Poll
\* (154); WaitUntil is set last, only when next_repaint_time is Some (171-183).
CheckFlow(tbl, flow) ==
    IF DOMAIN tbl = {} THEN flow
    ELSE IF \E w \in DOMAIN tbl : IsDue(tbl, w) THEN Poll
    ELSE WaitUntil(SetMin({tbl[w] : w \in DOMAIN tbl}))

(***************************************************************************)
(* handle_event_result (run.rs 68-141).                                     *)
(***************************************************************************)
RepaintAtOverwrite(tbl, w, t) == t

\* run.rs 106-108: `.get(&window_id).map_or(repaint_time, |last| (*last).min(repaint_time))`
RepaintAtTime(tbl, w, t) == IF w \in DOMAIN tbl THEN Min2(tbl[w], t) ELSE t

\* cfg!(target_os = "windows") and RepaintNow: the synchronous redraw (86-89).
SyncRepaint(r) == r.kind = "RepaintNow" /\ target_windows

ArmTableNextKeepsEarlier(tbl, r) ==
    CASE r.kind = "RepaintNow" ->
            IF target_windows THEN Remove(tbl, r.w) ELSE Insert(tbl, r.w, now)
      [] r.kind = "RepaintNext" -> Insert(tbl, r.w, RepaintAtTime(tbl, r.w, now))
      [] r.kind = "RepaintAt" -> Insert(tbl, r.w, RepaintAtTime(tbl, r.w, r.t))
      [] OTHER -> tbl

ArmTableNowRemoves(tbl, r) ==
    CASE r.kind = "RepaintNow" -> Remove(tbl, r.w)
      [] r.kind = "RepaintNext" -> Insert(tbl, r.w, now)
      [] r.kind = "RepaintAt" -> Insert(tbl, r.w, RepaintAtTime(tbl, r.w, r.t))
      [] OTHER -> tbl

\* The table after the match on the event result (78-116).
ArmTable(tbl, r) ==
    CASE r.kind = "RepaintNow" ->
            IF target_windows THEN Remove(tbl, r.w) ELSE Insert(tbl, r.w, now)
      [] r.kind = "RepaintNext" -> Insert(tbl, r.w, now)
      [] r.kind = "RepaintAt" -> Insert(tbl, r.w, RepaintAtTime(tbl, r.w, r.t))
      [] OTHER -> tbl

ArmFlowKept(r, flow) == flow

\* The directive after the match on the event result: only the Wait arm sets
\* one (run.rs 79-82).
ArmFlow(r, flow) == IF r.kind = "Wait" THEN Wait ELSE flow

\* What is recorded of the result of the synchronous run_ui_and_paint: that
\* it was an error, Exit, or one of the other event results.
SyncOutcome(r2) == IF r2.kind \in {"none", "Err", "Exit"} THEN r2.kind ELSE "Other"

SyncErrorOrExit(r, r2) == SyncRepaint(r) /\ r2.kind \in {"Err", "Exit"}

\* run.rs 89, 119: the result of the synchronous run_ui_and_paint is the
\* combined result, of which only Err is acted on.
SyncError(r, r2) == SyncRepaint(r) /\ r2.kind = "Err"

ResultResetByOk(result, err) == IF err THEN "Err" ELSE "Ok"

\* run.rs 119-123: `if let Err(err) = combined_result { ... self.return_result = Err(err); }`
RecordResult(result, err) == IF err THEN "Err" ELSE result

ExitSavesInBothModes(return_to_caller) ==
    IF return_to_caller
    THEN <<"save_and_destroy", "event_loop.exit">>
    ELSE <<"save_and_destroy", "process::exit(0)">>

ExitWithoutSave(return_to_caller) ==
    IF return_to_caller THEN <<"event_loop.exit">> ELSE <<"process::exit(0)">>

\* run.rs 125-138: what `if exit` does, in order.
ExitEffects(return_to_caller) ==
    IF return_to_caller
    THEN <<"event_loop.exit">>
    ELSE <<"save_and_destroy", "process::exit(0)">>

\* The calls of winit_app.save_and_destroy() (131, 294) among the effects of
\* a callback.
SaveCalls(effects) == Cardinality({i \in DOMAIN effects : effects[i] = "save_and_destroy"})

\* Callbacks are delivered until the loop has ended: event_loop.exit() (128)
\* only asks the loop to end.
Delivering == phase \in {"running", "exit_requested"}

\* handle_event_result on result r of callback op; tbl0 is the table on entry, r2 the result of the synchronous
\* run_ui_and_paint (read only when SyncRepaint(r)).
handle_event_result(op, win, tbl0, r, r2, cur, nr) ==
    LET err == r.kind = "Err" \/ SyncError(r, r2)
        exit == r.kind = "Exit" \/ err
        tbl1 == ArmTable(tbl0, r)
        flow1 == ArmFlow(r, control_flow)
    IN  /\ return_result' = RecordResult(return_result, err)
        /\ callback_failed' = (callback_failed \/ err)
        /\ last_effects' = (IF err THEN <<"log::error">> ELSE <<>>)
                            \o (IF exit THEN ExitEffects(run_and_return) ELSE <<>>)
        /\ save_and_destroy_calls' = save_and_destroy_calls + SaveCalls(last_effects')
        /\ IF exit /\ ~run_and_return
           THEN \* save_and_destroy(); std::process::exit(0)  (130-136)
                /\ phase' = "terminated"
                /\ windows_next_repaint_times' = tbl1
                /\ control_flow' = flow1
                /\ last' = [Observed(op, win, r, cur, nr, {}, {}) EXCEPT !.sync = SyncOutcome(r2)]
           ELSE /\ phase' = IF exit THEN "exit_requested" ELSE phase
                /\ windows_next_repaint_times' = CheckTable(tbl1)
                /\ control_flow' = CheckFlow(tbl1, flow1)
                /\ last' = [Observed(op, win, r, cur, nr, CheckRedraws(tbl1), CheckDropped(tbl1))
                               EXCEPT !.sync = SyncOutcome(r2)]
        /\ UNCHANGED <<now, window, run_and_return, target_windows>>

\* What run_ui_and_paint may return when it is called synchronously.
SyncResults(r) ==
    IF SyncRepaint(r) THEN {x \in EventResults : x.w \in {NoWindow, r.w}} ELSE {NoResult}

(***************************************************************************)
(* The platform callbacks (impl ApplicationHandler, run.rs 187-297).        *)
(***************************************************************************)
new_events_body ==
    /\ last_effects' = <<>>
    /\ windows_next_repaint_times' = CheckTable(windows_next_repaint_times)
    /\ control_flow' = CheckFlow(windows_next_repaint_times, control_flow)
    /\ last' = Observed("new_events", NoWindow, NoResult, 0, 0,
                         CheckRedraws(windows_next_repaint_times),
                         CheckDropped(windows_next_repaint_times))
    /\ UNCHANGED <<now, window, return_result, run_and_return, target_windows, phase,
                   callback_failed, save_and_destroy_calls>>

new_events ==
    /\ Delivering
    /\ new_events_body
    /\ UNCHANGED <<guard_vars, store_vars, dispatch_vars, launch_vars, browser_vars>>

\* resumed (196-204), window_event with an event other than RedrawRequested
\* (259), device_event (266-279) and suspended (281-288): each calls the
\* Application and hands its result to handle_event_result.
app_event_body ==
    \E r \in EventResults : \E r2 \in SyncResults(r) :
       handle_event_result("app_event", NoWindow, windows_next_repaint_times,
                           r, r2, 0, 0)

app_event ==
    /\ Delivering
    /\ app_event_body
    /\ UNCHANGED <<guard_vars, store_vars, dispatch_vars, launch_vars, browser_vars>>

\* window_event with WindowEvent::RedrawRequested (run.rs 255-258): the entry of
\* the window is removed, then run_ui_and_paint runs and its result is handled.
redraw_requested_body ==
    \E win \in Windows : \E r \in EventResults : \E r2 \in SyncResults(r) :
       handle_event_result("redraw_requested", win,
                           Remove(windows_next_repaint_times, win), r, r2, 0, 0)

redraw_requested ==
    /\ Delivering
    /\ redraw_requested_body
    /\ UNCHANGED <<guard_vars, store_vars, dispatch_vars, launch_vars, browser_vars>>

FrameHonoredNext(current_frame_nr, frame_nr) ==
    current_frame_nr = frame_nr \/ current_frame_nr + 1 = frame_nr

\* run.rs 221: `current_frame_nr == frame_nr || current_frame_nr == frame_nr + 1`
FrameHonored(current_frame_nr, frame_nr) ==
    current_frame_nr = frame_nr \/ current_frame_nr = frame_nr + 1

RequestRepaintAnyFrame(when, frame_nr, current_frame_nr, window_id) ==
    IF window_id # NoWindow
    THEN Result("RepaintAt", window_id, when)
    ELSE Result("Wait", NoWindow, 0)

\* The event result user_event builds from UserEvent::RequestRepaint (215-234);
\* window_id is what window_id_from_viewport_id answers (NoWindow for None).
RequestRepaintResult(when, frame_nr, current_frame_nr, window_id) ==
    IF FrameHonored(current_frame_nr, frame_nr)
    THEN IF window_id # NoWindow
         THEN Result("RepaintAt", window_id, when)
         ELSE Result("Wait", NoWindow, 0)
    ELSE Result("Wait", NoWindow, 0)

user_event_body ==
    \E when \in Times, frame_nr \in Frames, current_frame_nr \in Frames,
       window_id \in Windows \cup {NoWindow} :
       handle_event_result("user_event", window_id, windows_next_repaint_times,
                           RequestRepaintResult(when, frame_nr, current_frame_nr, window_id),
                           NoResult, current_frame_nr, frame_nr)

user_event ==
    /\ Delivering
    /\ user_event_body
    /\ UNCHANGED <<guard_vars, store_vars, dispatch_vars, launch_vars, browser_vars>>

\* exiting (run.rs 290-296): save_and_destroy, after which the loop is left.
\* The platform calls it once event_loop.exit() was requested (128), and when
\* the loop ends for a reason of its own (291: Cmd-Q).
exiting_body ==
    /\ phase' = "exited"
    /\ last_effects' = <<"save_and_destroy">>
    /\ save_and_destroy_calls' = save_and_destroy_calls + SaveCalls(last_effects')
    /\ last' = Observed("exiting", NoWindow, NoResult, 0, 0, {}, {})
    /\ UNCHANGED <<windows_next_repaint_times, control_flow, now, window,
                   return_result, run_and_return, target_windows, callback_failed>>

exiting ==
    /\ phase \in {"running", "exit_requested"}
    /\ exiting_body
    /\ UNCHANGED <<guard_vars, store_vars, dispatch_vars, launch_vars, browser_vars>>

(***************************************************************************)
(* The environment: time passes, windows are minimized, restored, closed.   *)
(***************************************************************************)
Tick ==
    /\ phase = "running"
    /\ now < MaxTime
    /\ now' = now + 1
    /\ last' = Observed("tick", NoWindow, NoResult, 0, 0, {}, {})
    /\ UNCHANGED <<windows_next_repaint_times, control_flow, window, return_result,
                   run_and_return, target_windows, phase, callback_failed, last_effects,
                   save_and_destroy_calls,
                   guard_vars, store_vars, dispatch_vars, launch_vars, browser_vars>>

SetWindow ==
    /\ phase = "running"
    /\ \E w \in Windows : \E s \in WindowStates \ {window[w]} :
          window' = [window EXCEPT ![w] = s]
    /\ last' = Observed("set_window", NoWindow, NoResult, 0, 0, {}, {})
    /\ UNCHANGED <<windows_next_repaint_times, control_flow, now, return_result,
                   run_and_return, target_windows, phase, callback_failed, last_effects,
                   save_and_destroy_calls,
                   guard_vars, store_vars, dispatch_vars, launch_vars, browser_vars>>

(***************************************************************************)
(* event_loop_context.rs: the thread-local CURRENT_EVENT_LOOP, the guard    *)
(* that sets and clears it, and the two functions that use it.              *)
(***************************************************************************)
Threads == {"t1", "t2"}
EventLoops == {"el1", "el2"}
NoLoop == "none"

\* The closures handed to with_current_event_loop, and what they return.
Closures == {"same", "is_el1"}
Apply(f, event_loop) ==
    IF f = "same" THEN event_loop
    ELSE IF event_loop = "el1" THEN "yes" ELSE "no"

None == [some |-> FALSE, val |-> "-"]
Some(v) == [some |-> TRUE, val |-> v]

GuardObserved(op, t, el, f, ret) == [op |-> op, thread |-> t, el |-> el, f |-> f, ret |-> ret]

Push(seq, x) == Append(seq, x)
Pop(seq) == SubSeq(seq, 1, Len(seq) - 1)
CountUp(n) == IF n < MaxScopes THEN n + 1 ELSE n

NoAssert(t) == TRUE

\* event_loop_context.rs 26-29: `assert!(cell.get().is_none(), ...)`
GuardNewAsserts(t) == CURRENT_EVENT_LOOP[t] = NoLoop

DropKeepsSlot(t) == CURRENT_EVENT_LOOP[t]

\* event_loop_context.rs 40-42: Drop for EventLoopGuard, `CURRENT_EVENT_LOOP.set(None)`
SlotAfterDrop(t) == NoLoop

GuardLeakedOnUnwind == FALSE

\* event_loop_context.rs 87: `let _guard = ...` is a binding of the frame, so
\* the guard is dropped when a panic unwinds the frame.
GuardDroppedOnUnwind == TRUE

\* A panic on thread t: the build unwinds the thread or aborts the process.
Panics(t) ==
    thread_state' = IF panic_abort
                    THEN [x \in Threads |-> "aborted"]
                    ELSE [thread_state EXCEPT ![t] = "unwinding"]

\* with_event_loop_context, up to the call of f (85-88): EventLoopGuard::new
\* (24-33) asserts that the slot is empty and then sets it.
EventLoopGuard_new(t, event_loop) ==
    /\ IF GuardNewAsserts(t)
       THEN /\ CURRENT_EVENT_LOOP' = [CURRENT_EVENT_LOOP EXCEPT ![t] = event_loop]
            /\ guards' = [guards EXCEPT ![t] = Push(@, event_loop)]
            /\ glast' = GuardObserved("guard_new", t, event_loop, "-", None)
            /\ UNCHANGED thread_state
       ELSE /\ Panics(t)
            /\ glast' = GuardObserved("guard_new_panic", t, event_loop, "-", None)
            /\ UNCHANGED <<CURRENT_EVENT_LOOP, guards>>
    /\ UNCHANGED <<panic_abort, scopes_returned, scopes_unwound>>

guard_new(t, event_loop) ==
    /\ thread_state[t] = "running"
    /\ Len(guards[t]) < MaxNesting
    /\ EventLoopGuard_new(t, event_loop)
    /\ UNCHANGED <<driver_vars, store_vars, dispatch_vars, launch_vars, browser_vars>>

\* with_event_loop_context when f returns (88-89): _guard is dropped (40-42).
EventLoopGuard_drop(t) ==
    /\ CURRENT_EVENT_LOOP' = [CURRENT_EVENT_LOOP EXCEPT ![t] = SlotAfterDrop(t)]
    /\ guards' = [guards EXCEPT ![t] = Pop(@)]
    /\ scopes_returned' = [scopes_returned EXCEPT ![t] = CountUp(@)]
    /\ glast' = GuardObserved("guard_drop", t, NoLoop, "-", None)
    /\ UNCHANGED <<thread_state, panic_abort, scopes_unwound>>

guard_drop(t) ==
    /\ thread_state[t] = "running"
    /\ guards[t] # <<>>
    /\ EventLoopGuard_drop(t)
    /\ UNCHANGED <<driver_vars, store_vars, dispatch_vars, launch_vars, browser_vars>>

\* f panics inside with_event_loop_context (88).
body_panic(t) ==
    /\ thread_state[t] = "running"
    /\ guards[t] # <<>>
    /\ Panics(t)
    /\ glast' = GuardObserved("body_panic", t, NoLoop, "-", None)
    /\ UNCHANGED <<CURRENT_EVENT_LOOP, guards, panic_abort, scopes_returned, scopes_unwound,
                   driver_vars, store_vars, dispatch_vars, launch_vars, browser_vars>>

\* The panic unwinds the frame of a with_event_loop_context call: its _guard
\* is dropped (40-42).
unwind_drop(t) ==
    /\ thread_state[t] = "unwinding"
    /\ guards[t] # <<>>
    /\ CURRENT_EVENT_LOOP' =
          [CURRENT_EVENT_LOOP EXCEPT
              ![t] = IF GuardDroppedOnUnwind THEN SlotAfterDrop(t) ELSE @]
    /\ guards' = [guards EXCEPT ![t] = Pop(@)]
    /\ scopes_unwound' = [scopes_unwound EXCEPT ![t] = CountUp(@)]
    /\ glast' = GuardObserved("unwind_drop", t, NoLoop, "-", None)
    /\ UNCHANGED <<thread_state, panic_abort, scopes_returned, driver_vars, store_vars, dispatch_vars, launch_vars, browser_vars>>

\* The panic is caught (catch_unwind in a caller): the thread runs on.
panic_caught(t) ==
    /\ thread_state[t] = "unwinding"
    /\ thread_state' = [thread_state EXCEPT ![t] = "running"]
    /\ glast' = GuardObserved("panic_caught", t, NoLoop, "-", None)
    /\ UNCHANGED <<CURRENT_EVENT_LOOP, guards, panic_abort, scopes_returned, scopes_unwound,
                   driver_vars, store_vars, dispatch_vars, launch_vars, browser_vars>>

\* with_current_event_loop(f) (58-74): `cell.get().map(|ptr| f(&*ptr))`
CurrentEventLoopResult(t, f) ==
    IF CURRENT_EVENT_LOOP[t] = NoLoop THEN None ELSE Some(Apply(f, CURRENT_EVENT_LOOP[t]))

with_current_event_loop(t, f) ==
    /\ thread_state[t] = "running"
    /\ glast' = GuardObserved("with_current_event_loop", t, NoLoop, f,
                              CurrentEventLoopResult(t, f))
    /\ UNCHANGED <<CURRENT_EVENT_LOOP, guards, thread_state, panic_abort, scopes_returned,
                   scopes_unwound, driver_vars, store_vars, dispatch_vars, launch_vars, browser_vars>>

(***************************************************************************)
(* file_storage.rs: FileStorage, its background save and the file.          *)
(***************************************************************************)
Keys == {"a", "b"}
Values == {"1", "2"}

EmptyMap == [k \in {} |-> "-"]

\* HashMap::get(key).cloned()
Lookup(map, key) == IF key \in DOMAIN map THEN Some(map[key]) ELSE None

\* The file: missing, created and still empty, written in part, or holding
\* the serialized map.
File(state, map) == [state |-> state, kv |-> map]
MissingFile == File("missing", EmptyMap)

\* An eframe_persist thread (140-144): where it is in save_to_disk, the clone
\* of kv that was moved into it, the file as it was when the thread started,
\* whether every step so far succeeded, and whether the flush() that spawned
\* it had to wait in join() for a save that was still running.
SaveThread(map, file, waited) ==
    [state |-> "spawned", kv |-> map, before |-> file, ok |-> TRUE, waited |-> waited]

\* The threads that have not ended.
Alive(threads) == {i \in DOMAIN threads : threads[i].state # "done"}

\* The threads that hold the open file (between File::create and the end of
\* the write).
Writing(threads) == {i \in DOMAIN threads : threads[i].state \in {"created", "writing"}}

\* No second FileStorage on the path.
NoStore == [state |-> "none", kv |-> EmptyMap, open_ok |-> FALSE]

StoreObserved(op, key, value, ret) ==
    [op |-> op, key |-> key, val |-> value, ret |-> ret, prev |-> slast.op]

\* read_ron (205-226): None when the file cannot be opened or parsed, which
\* from_ron_filepath reads as the empty map (unwrap_or_default, 60).
read_ron(file, open_ok) ==
    IF open_ok /\ file.state = "written" THEN file.kv ELSE EmptyMap

from_ron_filepath_dirty ==
    /\ store_state \in {"none", "dropped"}
    /\ \E open_ok \in BOOLEAN :
          kv' = read_ron(disk, open_ok /\ disk.state # "missing")
    /\ store_state' = "live"
    /\ dirty' = (disk.state # "written")
    /\ last_save_join_handle' = FALSE
    /\ slast' = StoreObserved("from_ron_filepath", "-", "-", None)
    /\ UNCHANGED <<flush_pc, flush_kv, save_threads, disk, second_store,
                   driver_vars, guard_vars, dispatch_vars, launch_vars, browser_vars>>

\* from_ron_filepath (55-65)
from_ron_filepath ==
    /\ store_state \in {"none", "dropped"}
    /\ \E open_ok \in BOOLEAN :
          kv' = read_ron(disk, open_ok /\ disk.state # "missing")
    /\ store_state' = "live"
    /\ dirty' = FALSE
    /\ last_save_join_handle' = FALSE
    /\ slast' = StoreObserved("from_ron_filepath", "-", "-", None)
    /\ UNCHANGED <<flush_pc, flush_kv, save_threads, disk, second_store,
                   driver_vars, guard_vars, dispatch_vars, launch_vars, browser_vars>>

\* from_ron_filepath (55-65) called once more with the same path, while the
\* first store exists or after it was dropped: a second FileStorage.  open_ok
\* is FALSE when File::open fails on a file that exists.
second_from_ron_filepath ==
    /\ store_state # "none"
    /\ flush_pc = "idle"
    /\ second_store = NoStore
    /\ \E open_ok \in BOOLEAN :
          second_store' = [state |-> "live",
                           kv |-> read_ron(disk, open_ok /\ disk.state # "missing"),
                           open_ok |-> open_ok]
    /\ slast' = StoreObserved("second_from_ron_filepath", "-", "-", None)
    /\ UNCHANGED <<store_state, kv, dirty, last_save_join_handle, flush_pc, flush_kv,
                   save_threads, disk, driver_vars, guard_vars, dispatch_vars, launch_vars, browser_vars>>

\* get_string (104-106)
get_string(key) ==
    /\ store_state = "live" /\ flush_pc = "idle"
    /\ slast' = StoreObserved("get_string", key, "-", Lookup(kv, key))
    /\ UNCHANGED <<store_state, kv, dirty, last_save_join_handle, flush_pc, flush_kv,
                   save_threads, disk, second_store, driver_vars, guard_vars, dispatch_vars, launch_vars, browser_vars>>

SetKeepsExisting(map, key, value) ==
    IF key \in DOMAIN map THEN map
    ELSE [k \in (DOMAIN map) \cup {key} |-> IF k = key THEN value ELSE map[k]]

\* file_storage.rs 118: `self.kv.insert(key.to_owned(), value)`
SetInsert(map, key, value) ==
    [k \in (DOMAIN map) \cup {key} |-> IF k = key THEN value ELSE map[k]]

set_string_marks_dirty(key, value) ==
    /\ store_state = "live" /\ flush_pc = "idle"
    /\ kv' = SetInsert(kv, key, value) /\ dirty' = TRUE
    /\ slast' = StoreObserved("set_string", key, value, None)
    /\ UNCHANGED <<store_state, last_save_join_handle, flush_pc, flush_kv, save_threads,
                   disk, second_store, driver_vars, guard_vars, dispatch_vars, launch_vars, browser_vars>>

\* set_string (116-121)
set_string(key, value) ==
    /\ store_state = "live" /\ flush_pc = "idle"
    /\ IF Lookup(kv, key) # Some(value)
       THEN kv' = SetInsert(kv, key, value) /\ dirty' = TRUE
       ELSE UNCHANGED <<kv, dirty>>
    /\ slast' = StoreObserved("set_string", key, value, None)
    /\ UNCHANGED <<store_state, last_save_join_handle, flush_pc, flush_kv, save_threads,
                   disk, second_store, driver_vars, guard_vars, dispatch_vars, launch_vars, browser_vars>>

\* flush (135): the handle, when there is one, is that of the thread spawned
\* last; join() on it returns at once when that thread has ended.
SaveRunning == last_save_join_handle /\ save_threads[Len(save_threads)].state # "done"

\* flush (127-133): when dirty, clear the flag and clone the map; flush() then
\* stands at the join (135-138), where it blocks while the previous save runs.
flush ==
    /\ store_state = "live" /\ flush_pc = "idle"
    /\ IF dirty
       THEN /\ dirty' = FALSE
            /\ flush_kv' = kv
            /\ flush_pc' = IF SaveRunning THEN "blocked" ELSE "flushing"
       ELSE UNCHANGED <<dirty, flush_kv, flush_pc>>
    /\ slast' = StoreObserved("flush", "-", "-", None)
    /\ UNCHANGED <<store_state, kv, last_save_join_handle, save_threads, disk,
                   second_store, driver_vars, guard_vars, dispatch_vars, launch_vars, browser_vars>>

NotJoined(handle, threads) == threads

\* last_save_join_handle.take() and join() (135-138): the thread is gone.
Joined(handle, threads) ==
    IF handle THEN SubSeq(threads, 1, Len(threads) - 1) ELSE threads

flush_spawn_failure_marks_dirty ==
    /\ flush_pc \in {"flushing", "blocked"}
    /\ ~SaveRunning
    /\ \E spawned \in BOOLEAN :
          /\ save_threads' =
                IF spawned
                THEN Append(Joined(last_save_join_handle, save_threads),
                            SaveThread(flush_kv, disk, flush_pc = "blocked"))
                ELSE Joined(last_save_join_handle, save_threads)
          /\ last_save_join_handle' = spawned
          /\ dirty' = ~spawned
          /\ slast' = StoreObserved("flush_spawn", "-", "-",
                                    IF spawned THEN Some("spawned") ELSE None)
    /\ flush_pc' = "idle"
    /\ flush_kv' = EmptyMap
    /\ UNCHANGED <<store_state, kv, disk, second_store, driver_vars, guard_vars, dispatch_vars, launch_vars, browser_vars>>

flush_spawn_no_join ==
    /\ flush_pc \in {"flushing", "blocked"}
    /\ \E spawned \in BOOLEAN :
          /\ save_threads' =
                IF spawned
                THEN Append(save_threads, SaveThread(flush_kv, disk, flush_pc = "blocked"))
                ELSE save_threads
          /\ last_save_join_handle' = spawned
          /\ slast' = StoreObserved("flush_spawn", "-", "-",
                                    IF spawned THEN Some("spawned") ELSE None)
    /\ flush_pc' = "idle"
    /\ flush_kv' = EmptyMap
    /\ UNCHANGED <<store_state, kv, dirty, disk, second_store, driver_vars, guard_vars, dispatch_vars, launch_vars, browser_vars>>

\* flush (135-152): join the previous save thread if there is a handle, then
\* spawn the thread that saves the clone; a failed spawn is only logged.
flush_spawn ==
    /\ flush_pc \in {"flushing", "blocked"}
    /\ ~SaveRunning
    /\ \E spawned \in BOOLEAN :
          /\ save_threads' =
                IF spawned
                THEN Append(Joined(last_save_join_handle, save_threads),
                            SaveThread(flush_kv, disk, flush_pc = "blocked"))
                ELSE Joined(last_save_join_handle, save_threads)
          /\ last_save_join_handle' = spawned
          /\ slast' = StoreObserved("flush_spawn", "-", "-",
                                    IF spawned THEN Some("spawned") ELSE None)
    /\ flush_pc' = "idle"
    /\ flush_kv' = EmptyMap
    /\ UNCHANGED <<store_state, kv, dirty, disk, second_store, driver_vars, guard_vars, dispatch_vars, launch_vars, browser_vars>>

\* save_to_disk (165-173, 187-189): the parent directory, then File::create,
\* which truncates the file; when it fails the thread ends.
save_create(i) ==
    /\ save_threads[i].state = "spawned"
    /\ \E created \in BOOLEAN :
          IF created
          THEN /\ disk' = File("truncated", EmptyMap)
               /\ save_threads' = [save_threads EXCEPT ![i].state = "created"]
          ELSE /\ save_threads' = [save_threads EXCEPT ![i].state = "done", ![i].ok = FALSE]
               /\ UNCHANGED disk
    /\ UNCHANGED <<store_state, kv, dirty, last_save_join_handle, flush_pc, flush_kv, slast,
                   second_store, driver_vars, guard_vars, dispatch_vars, launch_vars, browser_vars>>

\* save_to_disk (175-180): the BufWriter hands a first part of the text to the
\* file.
save_write_part(i) ==
    /\ save_threads[i].state = "created"
    /\ disk' = File("partial", EmptyMap)
    /\ save_threads' = [save_threads EXCEPT ![i].state = "writing"]
    /\ UNCHANGED <<store_state, kv, dirty, last_save_join_handle, flush_pc, flush_kv, slast,
                   second_store, driver_vars, guard_vars, dispatch_vars, launch_vars, browser_vars>>

save_finish_of_live_map(i) ==
    /\ save_threads[i].state \in {"created", "writing"}
    /\ \E written \in BOOLEAN :
          IF written
          THEN /\ disk' = File("written", kv)
               /\ save_threads' = [save_threads EXCEPT ![i].state = "done"]
          ELSE /\ save_threads' = [save_threads EXCEPT ![i].state = "done", ![i].ok = FALSE]
               /\ UNCHANGED disk
    /\ UNCHANGED <<store_state, kv, dirty, last_save_join_handle, flush_pc, flush_kv, slast,
                   second_store, driver_vars, guard_vars, dispatch_vars, launch_vars, browser_vars>>

\* save_to_disk (179-185): to_writer_pretty and writer.flush() end, with the
\* whole text in the file or with an error that is logged.
save_finish(i) ==
    /\ save_threads[i].state \in {"created", "writing"}
    /\ \E written \in BOOLEAN :
          IF written
          THEN /\ disk' = File("written", save_threads[i].kv)
               /\ save_threads' = [save_threads EXCEPT ![i].state = "done"]
          ELSE /\ save_threads' = [save_threads EXCEPT ![i].state = "done", ![i].ok = FALSE]
               /\ UNCHANGED disk
    /\ UNCHANGED <<store_state, kv, dirty, last_save_join_handle, flush_pc, flush_kv, slast,
                   second_store, driver_vars, guard_vars, dispatch_vars, launch_vars, browser_vars>>

drop_without_join ==
    /\ store_state = "live" /\ flush_pc = "idle"
    /\ store_state' = "dropped"
    /\ last_save_join_handle' = FALSE
    /\ slast' = StoreObserved("drop", "-", "-", None)
    /\ UNCHANGED <<kv, dirty, flush_pc, flush_kv, save_threads, disk, second_store,
                   driver_vars, guard_vars, dispatch_vars, launch_vars, browser_vars>>

\* Drop for FileStorage (32-43): join the save thread if there is a handle.
drop ==
    /\ store_state = "live" /\ flush_pc = "idle"
    /\ ~SaveRunning
    /\ store_state' = "dropped"
    /\ save_threads' = Joined(last_save_join_handle, save_threads)
    /\ last_save_join_handle' = FALSE
    /\ slast' = StoreObserved("drop", "-", "-", None)
    /\ UNCHANGED <<kv, dirty, flush_pc, flush_kv, disk, second_store, driver_vars, guard_vars, dispatch_vars, launch_vars, browser_vars>>

\* No store has been constructed.
StoreIdle ==
    /\ store_state = "none"
    /\ kv = EmptyMap
    /\ dirty = FALSE
    /\ last_save_join_handle = FALSE
    /\ flush_pc = "idle"
    /\ flush_kv = EmptyMap
    /\ save_threads = <<>>
    /\ disk = MissingFile
    /\ second_store = NoStore
    /\ slast = [op |-> "init", key |-> "-", val |-> "-", ret |-> None, prev |-> "init"]

(***************************************************************************)
(* run.rs 19-47 and 321-367: create_event_loop, the thread-local EVENT_LOOP *)
(* of with_event_loop, and the two ways run_glow / run_wgpu start the app.  *)
(***************************************************************************)
\* Option<EventLoop>: None is 0, Some is the number of the event loop among
\* those built on the thread.
NoEventLoop == 0

\* What a run did: the thread, whether native_options.run_and_return was set,
\* what became of create_event_loop ("none" when it was not called), whether
\* the application was run, the Result handed to the caller ("-" when the
\* process exited instead), and the cached event loop the run used.
Launched(t, return_to_caller, build, app_ran, ret, used) ==
    [thread |-> t, return_to_caller |-> return_to_caller, build |-> build,
     app_ran |-> app_ran, ret |-> ret, used |-> used]

\* What the application's run hands back: run_app_on_demand()? and
\* app.return_result (306-308).
RunResults == {"Ok", "Err"}

InsertNothing(cell, event_loop) == cell

\* run.rs 43: `event_loop_lock.insert(...)`
InsertEventLoop(cell, event_loop) == event_loop

\* with_event_loop (32-47) as run_glow / run_wgpu call it when
\* native_options.run_and_return is set (333-338, 357-362): the event loop in
\* the cell is used; when there is none create_event_loop runs, its error is
\* returned with `?` before f is called, its event loop is put in the cell.
with_event_loop(t) ==
    /\ process_state = "running"
    /\ IF EVENT_LOOP[t] # NoEventLoop
       THEN /\ \E ret \in RunResults :
                  launched' = Launched(t, TRUE, "none", TRUE, ret, EVENT_LOOP[t])
            /\ UNCHANGED <<EVENT_LOOP, loops_created, loops_failed>>
       ELSE \E build_ok \in BOOLEAN :
               IF build_ok
               THEN /\ loops_created[t] < MaxBuilds
                    /\ loops_created' = [loops_created EXCEPT ![t] = @ + 1]
                    /\ EVENT_LOOP' = [EVENT_LOOP EXCEPT
                                         ![t] = InsertEventLoop(@, loops_created[t] + 1)]
                    /\ \E ret \in RunResults :
                          launched' = Launched(t, TRUE, "built", TRUE, ret,
                                               loops_created[t] + 1)
                    /\ UNCHANGED loops_failed
               ELSE /\ loops_failed[t] < MaxBuilds
                    /\ loops_failed' = [loops_failed EXCEPT ![t] = @ + 1]
                    /\ launched' = Launched(t, TRUE, "failed", FALSE, "Err", NoEventLoop)
                    /\ UNCHANGED <<EVENT_LOOP, loops_created>>
    /\ UNCHANGED <<process_state, driver_vars, guard_vars, store_vars, dispatch_vars,
                   browser_vars>>

\* run_glow / run_wgpu without run_and_return (340-342, 364-366):
\* create_event_loop, whose error is returned with `?`; then run_and_exit
\* (311-319), which ends in std::process::exit (136), or returns the error of
\* run_app, or Ok when the loop returned.  The cell is not touched.
run_and_exit(t) ==
    /\ process_state = "running"
    /\ \E build_ok \in BOOLEAN :
          IF build_ok
          THEN \E ret \in RunResults \cup {"-"} :
                  /\ launched' = Launched(t, FALSE, "built", TRUE, ret, NoEventLoop)
                  /\ process_state' = IF ret = "-" THEN "exited" ELSE "running"
          ELSE /\ launched' = Launched(t, FALSE, "failed", FALSE, "Err", NoEventLoop)
               /\ UNCHANGED process_state
    /\ UNCHANGED <<EVENT_LOOP, loops_created, loops_failed,
                   driver_vars, guard_vars, store_vars, dispatch_vars, browser_vars>>

\* No run has been started: every thread's cell holds None.
LaunchIdle ==
    /\ EVENT_LOOP = [t \in Threads |-> NoEventLoop]
    /\ loops_created = [t \in Threads |-> 0]
    /\ loops_failed = [t \in Threads |-> 0]
    /\ process_state = "running"
    /\ launched = Launched("t1", FALSE, "none", FALSE, "-", NoEventLoop)

(***************************************************************************)
(* The file browser: FileBrowserApp::directory_size (explorer.rs 160-178)   *)
(* and the popup of a folder that starts it (list.rs 48-78).                *)
(***************************************************************************)
\* A thread spawned by directory_size: where it is in its closure, and the
\* result of calculate_size once it has one.
SizeThread == [pc |-> "spawned", result |-> "-"]

\* The threads whose closure has not ended.
Calculations(threads) == {i \in DOMAIN threads : threads[i].pc # "done"}

\* The UI thread outside the popup closure.
PopupClosed == [pc |-> "closed", size |-> "None", calculating |-> FALSE, shown |-> "-"]

\* list.rs 48: `let size = directory.size.lock().unwrap().clone();`
popup_read_size ==
    /\ popup.pc = "closed"
    /\ popup' = [pc |-> "size", size |-> size, calculating |-> FALSE, shown |-> "-"]
    /\ UNCHANGED <<size, calculating, error, size_threads,
                   driver_vars, guard_vars, store_vars, dispatch_vars, launch_vars>>

\* list.rs 49: `let calculating = *directory.calculating.lock().unwrap();`
popup_read_calculating ==
    /\ popup.pc = "size"
    /\ popup' = [popup EXCEPT !.pc = "calculating", !.calculating = calculating]
    /\ UNCHANGED <<size, calculating, error, size_threads,
                   driver_vars, guard_vars, store_vars, dispatch_vars, launch_vars>>

\* list.rs 62: `else if size.is_none() && !calculating` after `if error.is_some()` (57)
Started(read_size, read_calculating, read_error) ==
    read_error = "None" /\ read_size = "None" /\ ~read_calculating

\* list.rs 50-77: the error is read, then one of the four rows is shown; the
\* row of an unknown size calls directory_size (65), which clones the
\* fields and spawns a thread (explorer.rs 160-166).
popup_show ==
    /\ popup.pc = "calculating"
    /\ IF Started(popup.size, popup.calculating, error)
       THEN /\ Len(size_threads) < MaxSizeThreads
            /\ size_threads' = Append(size_threads, SizeThread)
            /\ popup' = [PopupClosed EXCEPT !.shown = "directory_size"]
       ELSE /\ UNCHANGED size_threads
            /\ popup' = [PopupClosed EXCEPT !.shown =
                            IF error = "Some" THEN "error"
                            ELSE IF popup.calculating THEN "spinner" ELSE "size"]
    /\ UNCHANGED <<size, calculating, error,
                   driver_vars, guard_vars, store_vars, dispatch_vars, launch_vars>>

\* explorer.rs 167: `*calculating.lock().unwrap() = true;`
thread_set_calculating(i) ==
    /\ size_threads[i].pc = "spawned"
    /\ calculating' = TRUE
    /\ size_threads' = [size_threads EXCEPT ![i].pc = "clear_error"]
    /\ UNCHANGED <<size, error, popup,
                   driver_vars, guard_vars, store_vars, dispatch_vars, launch_vars>>

\* explorer.rs 168: `*error.lock().unwrap() = None;`
thread_clear_error(i) ==
    /\ size_threads[i].pc = "clear_error"
    /\ error' = "None"
    /\ size_threads' = [size_threads EXCEPT ![i].pc = "calculate"]
    /\ UNCHANGED <<size, calculating, popup,
                   driver_vars, guard_vars, store_vars, dispatch_vars, launch_vars>>

\* explorer.rs 170: `let result = Self::calculate_size(&folder_path);`
thread_calculate_size(i) ==
    /\ size_threads[i].pc = "calculate"
    /\ \E result \in {"Ok", "Err"} :
          size_threads' = [size_threads EXCEPT ![i].pc = "calculated", ![i].result = result]
    /\ UNCHANGED <<size, calculating, error, popup,
                   driver_vars, guard_vars, store_vars, dispatch_vars, launch_vars>>

\* explorer.rs 172: `*calculating.lock().unwrap() = false;`
thread_unset_calculating(i) ==
    /\ size_threads[i].pc = "calculated"
    /\ calculating' = FALSE
    /\ size_threads' = [size_threads EXCEPT ![i].pc = "store"]
    /\ UNCHANGED <<size, error, popup,
                   driver_vars, guard_vars, store_vars, dispatch_vars, launch_vars>>

\* explorer.rs 173-176: the size or the error is stored and the closure ends.
thread_store(i) ==
    /\ size_threads[i].pc = "store"
    /\ IF size_threads[i].result = "Ok"
       THEN size' = "Some" /\ UNCHANGED error
       ELSE error' = "Some" /\ UNCHANGED size
    /\ size_threads' = [size_threads EXCEPT ![i].pc = "done"]
    /\ UNCHANGED <<calculating, popup,
                   driver_vars, guard_vars, store_vars, dispatch_vars, launch_vars>>

\* A Folder as update_directory_list makes it (explorer.rs 143-145), the
\* popup closed.
BrowserIdle ==
    /\ size = "None"
    /\ calculating = FALSE
    /\ error = "None"
    /\ size_threads = <<>>
    /\ popup = PopupClosed

\* The driver thread is between platform callbacks.
DispatchIdle == callback = [name |-> "-", stage |-> "platform"]

\* No thread holds a guard.
GuardIdle ==
    /\ CURRENT_EVENT_LOOP = [t \in Threads |-> NoLoop]
    /\ guards = [t \in Threads |-> <<>>]
    /\ thread_state = [t \in Threads |-> "running"]
    /\ panic_abort = FALSE
    /\ scopes_returned = [t \in Threads |-> 0]
    /\ scopes_unwound = [t \in Threads |-> 0]
    /\ glast = GuardObserved("init", "t1", NoLoop, "-", None)

\* The run loop before its first callback.
DriverIdle ==
    /\ windows_next_repaint_times = EmptyTable
    /\ control_flow = Wait
    /\ now = 0
    /\ window = [w \in Windows |-> "normal"]
    /\ return_result = "Ok"
    /\ run_and_return = FALSE
    /\ target_windows = FALSE
    /\ phase = "running"
    /\ callback_failed = FALSE
    /\ last_effects = <<>>
    /\ save_and_destroy_calls = 0
    /\ last = Observed("init", NoWindow, NoResult, 0, 0, {}, {})

GuardInit ==
    /\ DriverIdle
    /\ StoreIdle
    /\ DispatchIdle
    /\ LaunchIdle
    /\ BrowserIdle
    /\ CURRENT_EVENT_LOOP = [t \in Threads |-> NoLoop]
    /\ guards = [t \in Threads |-> <<>>]
    /\ thread_state = [t \in Threads |-> "running"]
    /\ panic_abort \in BOOLEAN
    /\ scopes_returned = [t \in Threads |-> 0]
    /\ scopes_unwound = [t \in Threads |-> 0]
    /\ glast = GuardObserved("init", "t1", NoLoop, "-", None)

GuardNext ==
    \/ \E t \in Threads, event_loop \in EventLoops : guard_new(t, event_loop)
    \/ \E t \in Threads : guard_drop(t)
    \/ \E t \in Threads : body_panic(t)
    \/ \E t \in Threads : unwind_drop(t)
    \/ \E t \in Threads : panic_caught(t)
    \/ \E t \in Threads, f \in Closures : with_current_event_loop(t, f)

GuardSpec == GuardInit /\ [][GuardNext]_vars

\* No store has been constructed; the file is missing, unparseable, or holds
\* a map saved earlier.
StoreInit ==
    /\ DriverIdle
    /\ GuardIdle
    /\ DispatchIdle
    /\ LaunchIdle
    /\ BrowserIdle
    /\ store_state = "none"
    /\ kv = EmptyMap
    /\ dirty = FALSE
    /\ last_save_join_handle = FALSE
    /\ flush_pc = "idle"
    /\ flush_kv = EmptyMap
    /\ save_threads = <<>>
    /\ second_store = NoStore
    /\ disk \in {MissingFile, File("partial", EmptyMap), File("written", [k \in {"a"} |-> "2"])}
    /\ slast = [op |-> "init", key |-> "-", val |-> "-", ret |-> None, prev |-> "init"]

StoreNext ==
    \/ from_ron_filepath
    \/ \E key \in Keys : get_string(key)
    \/ \E key \in Keys, value \in Values : set_string(key, value)
    \/ flush
    \/ flush_spawn
    \/ \E i \in DOMAIN save_threads : save_create(i)
    \/ \E i \in DOMAIN save_threads : save_write_part(i)
    \/ \E i \in DOMAIN save_threads : save_finish(i)
    \/ drop

StoreSpec == StoreInit /\ [][StoreNext]_vars

\* The store, and a second store constructed from the same path at any time.
RoundTripNext ==
    \/ StoreNext
    \/ second_from_ron_filepath

RoundTripSpec == StoreInit /\ [][RoundTripNext]_vars

(***************************************************************************)
(* The run-loop specification.                                              *)
(***************************************************************************)
DriverInit ==
    /\ windows_next_repaint_times = EmptyTable
    /\ control_flow = Wait
    /\ now = 0
    /\ window \in [Windows -> WindowStates]
    /\ return_result = "Ok"
    /\ run_and_return \in BOOLEAN
    /\ target_windows \in BOOLEAN
    /\ phase = "running"
    /\ callback_failed = FALSE
    /\ last_effects = <<>>
    /\ save_and_destroy_calls = 0
    /\ last = Observed("init", NoWindow, NoResult, 0, 0, {}, {})

Init == DriverInit /\ GuardIdle /\ StoreIdle /\ DispatchIdle /\ LaunchIdle /\ BrowserIdle

Next ==
    \/ new_events
    \/ app_event
    \/ redraw_requested
    \/ user_event
    \/ exiting
    \/ Tick
    \/ SetWindow

Spec == Init /\ [][Next]_vars

\* The platform honours the directive: under Poll it starts the next
\* iteration at once, under WaitUntil(t) it starts one when t is reached; each
\* iteration begins with new_events (run.rs 188-194).  Under Wait it waits for
\* an event.
Honoured(flow) == flow = Poll \/ (flow.kind = "WaitUntil" /\ flow.at <= now)

WakeUp == Honoured(control_flow) /\ new_events

\* A return-to-caller run (run_and_return, 300-309): the handler never ends
\* the process, the loop ends with exiting.
LiveInit == Init /\ run_and_return

\* The callbacks of the run; a repaint request (user_event) schedules through
\* the same handle_event_result as the results of the other callbacks.
LiveNext ==
    \/ new_events
    \/ app_event
    \/ redraw_requested
    \/ exiting
    \/ Tick
    \/ SetWindow

\* The run loop on a platform that honours the directive, with time that
\* advances.
LiveSpec == LiveInit /\ [][LiveNext]_vars /\ WF_vars(Tick) /\ WF_vars(WakeUp)

(***************************************************************************)
(* The platform callbacks step by step: the entry into the callback (with   *)
(* with_event_loop_context installing the guard), its body, its return.     *)
(***************************************************************************)
\* The thread that runs the event loop, and the ActiveEventLoop the platform
\* hands to every callback.
DriverThread == "t1"
ActiveEventLoop == "el1"

\* impl ApplicationHandler for WinitAppWrapper (run.rs 187-297); window_event
\* is split in RedrawRequested and the other events (254-260).
Callbacks ==
    {"new_events", "resumed", "window_event", "redraw_requested", "device_event",
     "suspended", "user_event", "exiting"}

\* The callbacks that call a lifecycle method of the Application; new_events
\* (188-194) only runs check_redraw_requests.
ApplicationCallbacks == Callbacks \ {"new_events"}

ContextExceptExiting(cb) == cb \notin {"new_events", "exiting"}

\* run.rs 200, 213, 253, 275, 284, 293: the callbacks whose body is the closure
\* handed to with_event_loop_context.
InEventLoopContext(cb) == cb # "new_events"

\* The platform calls a callback; with_event_loop_context creates the guard
\* (event_loop_context.rs 87) before the body runs.
callback_enter(cb) ==
    /\ callback.stage = "platform"
    /\ Delivering
    /\ thread_state[DriverThread] = "running"
    /\ callback' = [name |-> cb, stage |-> "entered"]
    /\ IF InEventLoopContext(cb)
       THEN EventLoopGuard_new(DriverThread, ActiveEventLoop)
       ELSE UNCHANGED guard_vars
    /\ UNCHANGED <<driver_vars, store_vars, launch_vars, browser_vars>>

\* The body of the callback: the call of the Application and the handling of
\* its result (in exiting: save_and_destroy).
callback_body ==
    /\ callback.stage = "entered"
    /\ thread_state[DriverThread] = "running"
    /\ CASE callback.name = "new_events" -> new_events_body
         [] callback.name \in {"resumed", "window_event", "device_event", "suspended"} ->
               app_event_body
         [] callback.name = "redraw_requested" -> redraw_requested_body
         [] callback.name = "user_event" -> user_event_body
         [] callback.name = "exiting" -> exiting_body
    /\ callback' = [callback EXCEPT !.stage = "returned"]
    /\ UNCHANGED <<guard_vars, store_vars, launch_vars, browser_vars>>

\* The callback returns to the platform (not after std::process::exit):
\* with_event_loop_context drops its guard (event_loop_context.rs 88-89).
callback_leave ==
    /\ callback.stage = "returned"
    /\ phase # "terminated"
    /\ callback' = [name |-> "-", stage |-> "platform"]
    /\ IF InEventLoopContext(callback.name)
       THEN EventLoopGuard_drop(DriverThread)
       ELSE UNCHANGED guard_vars
    /\ UNCHANGED <<driver_vars, store_vars, launch_vars, browser_vars>>

DispatchInit ==
    /\ DriverInit
    /\ window = [w \in Windows |-> "normal"]
    /\ GuardIdle
    /\ StoreIdle
    /\ DispatchIdle
    /\ LaunchIdle
    /\ BrowserIdle

DispatchNext ==
    \/ \E cb \in Callbacks : callback_enter(cb)
    \/ callback_body
    \/ callback_leave

DispatchSpec == DispatchInit /\ [][DispatchNext]_vars

(***************************************************************************)
(* The specification of the runs started on the threads of a process.       *)
(***************************************************************************)
LaunchInit ==
    DriverIdle /\ GuardIdle /\ StoreIdle /\ DispatchIdle /\ LaunchIdle /\ BrowserIdle

LaunchNext ==
    \/ \E t \in Threads : with_event_loop(t)
    \/ \E t \in Threads : run_and_exit(t)

LaunchSpec == LaunchInit /\ [][LaunchNext]_vars

(***************************************************************************)
(* The specification of a folder popup that is redrawn frame after frame,   *)
(* interleaved with the threads it has started.                             *)
(***************************************************************************)
BrowserInit ==
    DriverIdle /\ GuardIdle /\ StoreIdle /\ DispatchIdle /\ LaunchIdle /\ BrowserIdle

BrowserNext ==
    \/ popup_read_size
    \/ popup_read_calculating
    \/ popup_show
    \/ \E i \in DOMAIN size_threads : thread_set_calculating(i)
    \/ \E i \in DOMAIN size_threads : thread_clear_error(i)
    \/ \E i \in DOMAIN size_threads : thread_calculate_size(i)
    \/ \E i \in DOMAIN size_threads : thread_unset_calculating(i)
    \/ \E i \in DOMAIN size_threads : thread_store(i)

BrowserSpec == BrowserInit /\ [][BrowserNext]_vars

(***************************************************************************)
(* Properties of the run loop.                                              *)
(***************************************************************************)
Table == windows_next_repaint_times

\* The callbacks that end with check_redraw_requests.
CheckOps == {"new_events", "app_event", "redraw_requested", "user_event"}

\* The table handle_event_result starts from in the step: RedrawRequested has
\* removed the entry of its window before (run.rs 256).
HandledTable == IF last'.op = "redraw_requested" THEN Remove(Table, last'.win) ELSE Table

\* min(existing entry if any, t) for the RepaintAt handled in the step.
RepaintAtDue ==
    IF last'.w \in DOMAIN HandledTable
    THEN Min2(HandledTable[last'.w], last'.t)
    ELSE last'.t

\* No entry is inserted or moved in the step (entries may be dropped).
NoScheduleUpdate == \A w \in DOMAIN Table' : w \in DOMAIN Table /\ Table'[w] = Table[w]

\* C1 as stated: handling RepaintAt(w, t) leaves due-time(w) = min(existing
\* entry if any, t), so with an existing entry t1 < t the due time stays t1.
C1_RepaintAtSetsMin ==
    [][last'.res = "RepaintAt" =>
          last'.w \in DOMAIN Table' /\ Table'[last'.w] = RepaintAtDue]_vars

\* C1 amended: handling RepaintAt(w, t) leaves due-time(w) = min(existing entry
\* if any, t), never later than an existing entry, unless the due check that
\* ends the same callback drops the entry: then that minimum is <= now and the
\* window of w is minimized or not found.
C1_RepaintAtMinUnlessDropped ==
    [][last'.res = "RepaintAt" =>
          /\ last'.w \in DOMAIN Table' => Table'[last'.w] = RepaintAtDue
          /\ (last'.w \in DOMAIN Table' /\ last'.w \in DOMAIN HandledTable)
                => Table'[last'.w] <= HandledTable[last'.w]
          /\ last'.w \notin DOMAIN Table'
                => RepaintAtDue <= now /\ window[last'.w] # "normal"]_vars

\* C1 witness: a RepaintAt(w, t) was handled and w is still due at an earlier
\* instant than t, the entry that existed before.
C1_Witness ==
    /\ last.res = "RepaintAt"
    /\ last.w \in DOMAIN Table
    /\ Table[last.w] < last.t
    /\ now < Table[last.w]

\* C2 as stated: the check removes every entry with due time <= now and
\* leaves every entry with due time > now untouched.
C2_CheckRemovesEveryDue ==
    [][last'.op = "new_events" =>
          \A w \in DOMAIN Table :
              /\ Table[w] <= now => w \notin DOMAIN Table'
              /\ Table[w] > now => w \in DOMAIN Table' /\ Table'[w] = Table[w]]_vars

\* C2 amended: the check leaves every entry with due time > now untouched and
\* creates none; an entry with due time <= now is removed exactly when its
\* window is minimized or not found, and otherwise stays as it is (a redraw of
\* its window is requested, and the redraw removes it).
C2_CheckRemovesDueUnpaintable ==
    [][last'.op = "new_events" =>
          /\ DOMAIN Table' \subseteq DOMAIN Table
          /\ \A w \in DOMAIN Table :
                /\ Table[w] > now => w \in DOMAIN Table' /\ Table'[w] = Table[w]
                /\ Table[w] <= now =>
                      /\ w \in DOMAIN Table' <=> window[w] = "normal"
                      /\ w \in DOMAIN Table' => Table'[w] = Table[w]
                      /\ w \in last'.redraws <=> window[w] = "normal"]_vars

\* C2 witness: a check has run that dropped a due entry, kept a due entry of a
\* window it requested a redraw of, or kept an entry that is not due yet.
C2_Witness ==
    /\ last.op = "new_events"
    /\ last.dropped # {}
    /\ \E w \in DOMAIN Table : Table[w] > now

C5_DrainedThenWait ==
    [][(DOMAIN Table # {} /\ DOMAIN Table' = {} /\ phase' = "running")
          => control_flow'.kind = "Wait"]_vars

\* C6: a due entry of a minimized window is dropped by check_redraw_requests,
\* alone (new_events) or at the end of a callback whose event result and
\* redraw concern another window: the entry is gone, no entry of the window
\* exists afterwards and request_redraw is not called on the window.
C6_MinimizedDueDropped ==
    [][(last'.op \in CheckOps /\ phase' # "terminated") =>
          \A w \in DOMAIN Table :
              (Table[w] <= now /\ window[w] = "minimized" /\ w \notin {last'.w, last'.win})
                 => /\ w \notin DOMAIN Table'
                    /\ w \in last'.dropped
                    /\ w \notin last'.redraws]_vars

\* C6 witness: a check dropped the entry of a minimized window and requested
\* no redraw of it.
C6_Witness ==
    /\ last.op = "new_events"
    /\ \E w \in last.dropped :
          /\ window[w] = "minimized"
          /\ w \notin DOMAIN Table
          /\ w \notin last.redraws

(***************************************************************************)
(* Properties of the event-loop guard.                                      *)
(***************************************************************************)
\* C7: at most one guard is live per thread; a guard_new while a guard is live
\* on the thread panics at the assertion, leaves the slot and the live guard as
\* they were, and the slot still holds the event loop of the live guard; a
\* guard_new succeeds only when no guard is live on the thread.
C7_OneGuardPerThread ==
    [][/\ \A t \in Threads : Len(guards'[t]) <= 1
       /\ glast'.op = "guard_new" => guards[glast'.thread] = <<>>
       /\ glast'.op = "guard_new_panic" =>
             /\ guards[glast'.thread] # <<>>
             /\ guards' = guards
             /\ CURRENT_EVENT_LOOP' = CURRENT_EVENT_LOOP
             /\ CURRENT_EVENT_LOOP'[glast'.thread] = guards'[glast'.thread][1]]_vars

\* C7 witness: a second acquisition, with another event loop, has failed while
\* a guard was live, and the slot still holds the first event loop.
C7_Witness ==
    /\ glast.op = "guard_new_panic"
    /\ Len(guards[glast.thread]) = 1
    /\ CURRENT_EVENT_LOOP[glast.thread] = guards[glast.thread][1]
    /\ glast.el # CURRENT_EVENT_LOOP[glast.thread]

\* C8: with_current_event_loop(f) returns None when no guard scope is active
\* on the calling thread and Some(f(event_loop)), with the event loop of the
\* enclosing with_event_loop_context, when one is.
C8_CurrentEventLoop ==
    glast.op = "with_current_event_loop" =>
        IF guards[glast.thread] = <<>>
        THEN glast.ret = None
        ELSE glast.ret = Some(Apply(glast.f, guards[glast.thread][Len(guards[glast.thread])]))

\* C8 witness: inside a scope entered after an earlier scope of the thread had
\* ended, with_current_event_loop returned Some(f(event_loop)).
C8_Witness ==
    /\ glast.op = "with_current_event_loop"
    /\ glast.f = "is_el1"
    /\ guards[glast.thread] = <<"el2">>
    /\ glast.ret = Some("no")
    /\ scopes_returned[glast.thread] >= 1

\* C9: once the scope of a thread has ended, by return or by unwinding, the
\* slot of the thread is None: a guard_drop or unwind_drop leaves it None, and
\* it is None whenever the thread has no live guard.
C9_SlotClearedOnExit ==
    /\ \A t \in Threads : guards[t] = <<>> => CURRENT_EVENT_LOOP[t] = NoLoop
    /\ glast.op \in {"guard_drop", "unwind_drop"} => CURRENT_EVENT_LOOP[glast.thread] = NoLoop

\* C9 witness: a thread that left one scope by return and one by a panic has
\* acquired the guard again.
C9_Witness ==
    /\ glast.op = "guard_new"
    /\ scopes_unwound[glast.thread] >= 1
    /\ scopes_returned[glast.thread] >= 1
    /\ CURRENT_EVENT_LOOP[glast.thread] = glast.el

(***************************************************************************)
(* Properties of the file storage.                                          *)
(***************************************************************************)
\* C10: a get_string(k) that follows set_string(k, v) returns Some(v)
\* (whatever the save thread did in between), and get_string changes neither
\* the map, nor the dirty flag, nor the save handle.
C10_SetThenGet ==
    [][slast'.op = "get_string" =>
          /\ UNCHANGED <<kv, dirty, last_save_join_handle>>
          /\ (slast.op = "set_string" /\ slast.key = slast'.key)
                => slast'.ret = Some(slast.val)]_vars

\* C10 witness: get_string("b") right after a set_string("b", "2") that
\* replaced another value of "b" returned Some("2").
C10_Witness ==
    /\ slast.op = "get_string"
    /\ slast.prev = "set_string"
    /\ slast.key = "b"
    /\ slast.ret = Some("2")
    /\ disk = File("written", [k \in {"b"} |-> "1"])

\* The store operation op has just run (the save threads leave slast alone).
StoreStep(op) == slast' # slast /\ slast'.op = op

\* C11: set_string(k, v) with v the value stored under k leaves the map and the
\* dirty flag unchanged, and flush() on a store that is not dirty spawns no
\* save thread, joins nothing and changes no state of the store or the file.
C11_NoOpSetAndFlush ==
    [][/\ (StoreStep("set_string") /\ Lookup(kv, slast'.key) = Some(slast'.val))
            => UNCHANGED <<kv, dirty>>
       /\ (StoreStep("flush") /\ ~dirty)
            => UNCHANGED <<store_state, kv, dirty, last_save_join_handle, flush_pc,
                           flush_kv, save_threads, disk>>]_vars

\* C11 witness: set_string("a", "1") on a store whose flushed map already
\* holds "1" under "a" has run while the save was in flight, and the store is
\* not dirty.
C11_Witness ==
    /\ slast.op = "set_string" /\ slast.key = "a" /\ slast.val = "1"
    /\ slast.prev = "flush_spawn"
    /\ kv = [k \in {"a"} |-> "1"]
    /\ ~dirty
    /\ Alive(save_threads) # {}

\* The map after set_string("a", "1") and set_string("b", "2") on an empty store.
RoundTripMap == [k \in {"a", "b"} |-> IF k = "a" THEN "1" ELSE "2"]

\* C12: round trip.  When a second store is constructed from the same path
\* right after the flush() of the first store, whose map is {a: 1, b: 2}, has
\* returned, the second store answers get("a") = Some("1") and
\* get("b") = Some("2"), wherever the background save stands at that moment
\* (the save thread was spawned, no step of the save has failed and the
\* second store's File::open did not fail on an existing file).
C12_RoundTrip ==
    (/\ slast.op = "second_from_ron_filepath"
     /\ slast.prev = "flush_spawn"
     /\ store_state = "live"
     /\ kv = RoundTripMap
     /\ ~dirty
     /\ Len(save_threads) = 1
     /\ save_threads[1].ok
     /\ second_store.open_ok)
        => /\ Lookup(second_store.kv, "a") = Some("1")
           /\ Lookup(second_store.kv, "b") = Some("2")

\* flush() has just left the join in which it waited for a running save.
BlockedFlushSpawns == StoreStep("flush_spawn") /\ flush_pc = "blocked"

\* The new save starts only after the previous thread has ended and been
\* joined, and no two threads hold the file open at once.
SavesSerialized ==
    /\ BlockedFlushSpawns =>
          /\ save_threads[Len(save_threads)].state = "done"
          /\ Len(save_threads') <= 1
    /\ Cardinality(Writing(save_threads')) <= 1

C14_ExactlyOneWorkerPerFlush ==
    [][/\ Cardinality(Alive(save_threads')) <= 1
       /\ StoreStep("flush_spawn") =>
             /\ ~SaveRunning
             /\ Len(save_threads') = 1
             /\ save_threads'[1].state = "spawned"]_vars

\* C14 amended: at most one save thread is alive in every state, and each
\* flush() of a dirty store, after the previous worker has ended and its
\* handle has been joined, spawns exactly one worker, or none when the
\* thread cannot be created.
C14_OneWorkerUnlessSpawnFails ==
    [][/\ Cardinality(Alive(save_threads')) <= 1
       /\ StoreStep("flush_spawn") =>
             /\ ~SaveRunning
             /\ IF slast'.ret = Some("spawned")
                THEN Len(save_threads') = 1 /\ save_threads'[1].state = "spawned"
                ELSE save_threads' = <<>>]_vars

\* C14 witness: flush() has spawned a worker after joining the previous one,
\* for which it had to wait.
C14_Witness ==
    /\ slast.op = "flush_spawn" /\ slast.ret = Some("spawned")
    /\ Len(save_threads) = 1
    /\ save_threads[1].state = "spawned"
    /\ save_threads[1].waited
    /\ last_save_join_handle

C16_FailedSaveLeavesFile ==
    [][\A i \in DOMAIN save_threads' :
          (/\ i \in DOMAIN save_threads
           /\ save_threads[i].ok
           /\ ~save_threads'[i].ok)
             => /\ save_threads'[i].state = "done"
                /\ UNCHANGED <<kv, dirty, last_save_join_handle, flush_pc>>
                /\ Len(save_threads') = Len(save_threads)
                /\ disk' = save_threads'[i].before]_vars

\* The clones of the map that exist: the one flush() holds between line 133
\* and the spawn, and the one each thread that has not ended owns.
Clones == (IF flush_pc = "idle" THEN 0 ELSE 1) + Cardinality(Alive(save_threads))

\* C17: at no time do two clones of the map exist: flush() does not hold the
\* clone for the new save while the previous save thread still owns its own.
C17_OneCloneInFlight == Clones <= 1

\* C18: construction never fails.  from_ron_filepath always yields a live
\* store; from a missing file or a file that does not parse the store is
\* empty, and in every case (also after a successful load) the store is not
\* dirty, holds no join handle and has no save in flight.
C18_ConstructionNeverFails ==
    [][/\ (store_state # "live" /\ flush_pc = "idle")
            => ENABLED from_ron_filepath
       /\ StoreStep("from_ron_filepath") =>
             /\ store_state' = "live"
             /\ disk.state # "written" => kv' = EmptyMap
             /\ disk.state = "written" => kv' \in {disk.kv, EmptyMap}
             /\ ~dirty'
             /\ ~last_save_join_handle'
             /\ Alive(save_threads') = {}
             /\ flush_pc' = "idle"]_vars

\* C18 witness: a store has been constructed from a file that does not parse,
\* after an earlier store was dropped; it is empty and not dirty.
C18_Witness ==
    /\ slast.op = "from_ron_filepath" /\ slast.prev = "drop"
    /\ store_state = "live"
    /\ disk.state \in {"truncated", "partial"}
    /\ kv = EmptyMap
    /\ ~dirty

(***************************************************************************)
(* Properties of the exit handling (run.rs 112-138, 290-309).               *)
(***************************************************************************)
\* C19: handling EventResult::Exit in return-to-caller mode asks the loop to
\* exit, and in that mode the process is never terminated; in the other mode
\* it calls save_and_destroy and only then ends the process with status 0.
C19_ExitHandling ==
    [][/\ run_and_return => phase' # "terminated"
       /\ last'.res = "Exit" =>
             IF run_and_return
             THEN phase' = "exit_requested" /\ last_effects' = <<"event_loop.exit">>
             ELSE /\ phase' = "terminated"
                  /\ last_effects' = <<"save_and_destroy", "process::exit(0)">>]_vars

\* C19 witness: a RedrawRequested whose paint returned Exit has ended the
\* process, after save_and_destroy.
C19_Witness ==
    /\ last.op = "redraw_requested" /\ last.res = "Exit"
    /\ ~run_and_return
    /\ phase = "terminated"
    /\ last_effects = <<"save_and_destroy", "process::exit(0)">>
    /\ return_result = "Ok"

\* The callback that ran last returned an error, which the handler logged.
HandledError(effects) == effects # <<>> /\ Head(effects) = "log::error"

\* C20: an error of an Application callback is handled once, as Exit is (the
\* loop is asked to exit in return-to-caller mode, save_and_destroy and then
\* the end of the process otherwise), and in return-to-caller mode the
\* result of the run is an error from the first failed callback on: later
\* callbacks that succeed do not reset it.
C20_ErrorIsFatalAndKept ==
    [][/\ HandledError(last_effects') =>
             /\ return_result' = "Err"
             /\ IF run_and_return
                THEN /\ phase' = "exit_requested"
                     /\ Tail(last_effects') = <<"event_loop.exit">>
                ELSE /\ phase' = "terminated"
                     /\ Tail(last_effects') = <<"save_and_destroy", "process::exit(0)">>
       /\ (run_and_return /\ callback_failed') => return_result' = "Err"
       /\ (callback_failed' /\ ~callback_failed) => HandledError(last_effects')]_vars

\* C20 witness: in return-to-caller mode a callback failed, the loop was asked
\* to exit, a later callback returned Wait, and the result is still the error.
C20_Witness ==
    /\ run_and_return
    /\ callback_failed
    /\ phase = "exit_requested"
    /\ last.op = "app_event" /\ last.res = "Wait"
    /\ last_effects = <<>>
    /\ return_result = "Err"

(***************************************************************************)
(* Properties of the dispatch of the callbacks.                             *)
(***************************************************************************)
\* The body of an Application callback runs in this step.
ApplicationRuns ==
    /\ callback.stage = "entered"
    /\ callback'.stage = "returned"
    /\ callback.name \in ApplicationCallbacks

\* C21: the body of every Application callback (resumed, window event, redraw,
\* device event, suspended, user event, and save_and_destroy in exiting and
\* in the exit handling) runs while a guard is live on the driver thread, and
\* the slot is empty whenever the driver thread is between callbacks.
C21_CallbacksInsideGuard ==
    [][/\ ApplicationRuns =>
             /\ guards[DriverThread] # <<>>
             /\ CURRENT_EVENT_LOOP[DriverThread] = ActiveEventLoop
             /\ CURRENT_EVENT_LOOP'[DriverThread] = ActiveEventLoop
       /\ callback'.stage = "platform" =>
             /\ guards'[DriverThread] = <<>>
             /\ CURRENT_EVENT_LOOP'[DriverThread] = NoLoop]_vars

\* C21 witness: the exit handling of a redraw has called save_and_destroy and
\* ended the process, inside the guard of that callback.
C21_Witness ==
    /\ callback = [name |-> "redraw_requested", stage |-> "returned"]
    /\ phase = "terminated"
    /\ last_effects = <<"save_and_destroy", "process::exit(0)">>
    /\ CURRENT_EVENT_LOOP[DriverThread] = ActiveEventLoop
    /\ scopes_returned[DriverThread] > 0

(***************************************************************************)
(* Properties of the directive handed to the platform.                      *)
(***************************************************************************)
\* The entries of a table that are not due yet.
Future(tbl) == {w \in DOMAIN tbl : now < tbl[w]}

\* The least due time among the windows ws of a table.
NextDue(tbl, ws) == SetMin({tbl[w] : w \in ws})

\* C22 as stated: after the check, whenever an entry with due time > now
\* remains, the directive is WaitUntil(next), next the minimum remaining due
\* time, also when other entries were due in the same check.
C22_WaitUntilNextRemaining ==
    [][(last'.op = "new_events" /\ Future(Table') # {})
          => control_flow' = WaitUntil(NextDue(Table', Future(Table')))]_vars

\* C22 amended: after the check, when no entry was due and the table is not
\* empty the directive is WaitUntil(next), next the minimum due time in the
\* table; when any entry was due in the check the directive is Poll, also
\* when entries with due time > now remain.
C22_WaitUntilUnlessSomeDue ==
    [][last'.op = "new_events" =>
          /\ (Table # EmptyTable /\ Future(Table) = DOMAIN Table)
                => /\ Table' = Table
                   /\ control_flow' = WaitUntil(NextDue(Table', DOMAIN Table'))
          /\ Future(Table) # DOMAIN Table => control_flow' = Poll]_vars

\* C22 witness: a check found one entry due, requested the redraw, left an
\* entry that is not due yet, and the directive is Poll.
C22_Witness ==
    /\ last.op = "new_events"
    /\ last.redraws # {}
    /\ Future(Table) # {}
    /\ control_flow = Poll

\* C23: the driver never sleeps past a pending deadline.  Whenever the process
\* runs and the table is not empty, the directive the last callback left is
\* Poll or WaitUntil(t) with t the minimum due time in the table: it is never
\* Wait and never WaitUntil of a later instant.
C23_NeverSleepsPastDeadline ==
    (phase # "terminated" /\ Table # EmptyTable)
        => \/ control_flow = Poll
           \/ control_flow = WaitUntil(NextDue(Table, DOMAIN Table))

\* C23 witness: a callback that returned Wait ended with two windows scheduled
\* at different instants, and the directive is WaitUntil of the earlier one.
C23_Witness ==
    /\ last.op = "app_event" /\ last.res = "Wait"
    /\ DOMAIN Table = Windows
    /\ Table["w1"] < Table["w2"]
    /\ control_flow = WaitUntil(Table["w1"])

\* C24: RepaintNow(w).  Under the synchronous policy the callback leaves no
\* entry of w and has painted w; under the deferred policy the table and the
\* directive it leaves are those RepaintNext(w) leaves from the same state.
C24_RepaintNow ==
    [][(last'.res = "RepaintNow" /\ last'.op \in {"app_event", "redraw_requested"})
          => LET w == last'.w
                 next == Result("RepaintNext", w, 0)
                 tbl0 == HandledTable
             IN  IF target_windows
                 THEN /\ w \notin DOMAIN Table'
                      /\ w \in last'.painted
                      /\ \A x \in DOMAIN tbl0 \ {w} :
                            x \in DOMAIN Table' => Table'[x] = tbl0[x]
                 ELSE /\ Table' = CheckTable(ArmTable(tbl0, next))
                      /\ control_flow' = CheckFlow(ArmTable(tbl0, next), control_flow)
                      /\ w \notin last'.painted \ {last'.win}]_vars

\* C24 witness: on Windows a callback other than a redraw returned RepaintNow(w1);
\* w1 was painted in the callback and has no entry, while w2 keeps its own.
C24_Witness ==
    /\ target_windows
    /\ last.op = "app_event" /\ last.res = "RepaintNow" /\ last.w = "w1"
    /\ last.painted = {"w1"}
    /\ DOMAIN Table = {"w2"}

\* C25: RepaintNext(w) sets the due time of w to now, whatever entry w had, so
\* w is due at the check that ends the same callback: the directive becomes
\* Poll, and if w exists and is not minimized a redraw of w is requested and
\* its entry stays with due time now; otherwise the entry is dropped.
C25_RepaintNext ==
    [][last'.res = "RepaintNext"
          => LET w == last'.w
             IN  /\ control_flow' = Poll
                 /\ w \in last'.redraws \cup last'.dropped
                 /\ IF window[w] = "normal"
                    THEN /\ w \in last'.redraws
                         /\ w \in DOMAIN Table' /\ Table'[w] = now
                    ELSE /\ w \in last'.dropped
                         /\ w \notin DOMAIN Table']_vars

\* C25 witness: RepaintNext(w1) was handled after time had advanced; a redraw
\* of w1 was requested, its entry is due now and the directive is Poll.
C25_Witness ==
    /\ last.res = "RepaintNext" /\ last.w = "w1"
    /\ now > 0
    /\ "w1" \in last.redraws
    /\ "w1" \in DOMAIN Table /\ Table["w1"] = now
    /\ control_flow = Poll

\* C26 as stated: after EventResult::Wait has been handled the directive handed
\* to the platform is Wait.
C26_WaitGivesWait ==
    [][last'.res = "Wait" => control_flow' = Wait]_vars

\* C26 amended: after EventResult::Wait has been handled the directive is Wait
\* exactly when the table is empty; with entries in the table the check that
\* ends the callback sets Poll (an entry is due) or WaitUntil(minimum due time).
C26_WaitGivesWaitIfNothingScheduled ==
    [][last'.res = "Wait"
          => IF HandledTable = EmptyTable
             THEN control_flow' = Wait
             ELSE IF \E w \in DOMAIN HandledTable : IsDue(HandledTable, w)
             THEN control_flow' = Poll
             ELSE control_flow' = WaitUntil(NextDue(HandledTable, DOMAIN HandledTable))]_vars

\* C26 witness: a callback returned Wait while a repaint of w1 was scheduled
\* for a later instant; the directive it left is WaitUntil of that instant.
C26_Witness ==
    /\ last.op = "app_event" /\ last.res = "Wait"
    /\ DOMAIN Table = {"w1"} /\ now < Table["w1"]
    /\ control_flow = WaitUntil(Table["w1"])

(***************************************************************************)
(* Properties of the entries of the due-time table.                         *)
(***************************************************************************)
\* The table is a map keyed by window: a window has at most one entry.
OneEntryPerWindow ==
    DOMAIN Table' \subseteq Windows /\ Cardinality(DOMAIN Table') <= Cardinality(Windows)

\* The entry the window of RedrawRequested had before the callback is gone: an
\* entry it has afterwards is the one the result of the redraw scheduled,
\* computed from no previous entry.
RedrawnEntryRemoved ==
    last'.op = "redraw_requested"
        => LET w == last'.win
           IN  w \in DOMAIN Table'
                  => /\ last'.w = w
                     /\ last'.res \in {"RepaintNow", "RepaintNext", "RepaintAt"}
                     /\ Table'[w] = IF last'.res = "RepaintAt" THEN last'.t ELSE now

\* C27 as stated: at most one entry per window; the entry of w is removed when
\* the redraw of w is executed, and a window that is no longer known to the
\* Application has no entry at the end of a callback.
C27_RemovedWhenExecutedOrClosed ==
    [][(last'.op \in CheckOps /\ phase' # "terminated")
          => /\ OneEntryPerWindow
             /\ RedrawnEntryRemoved
             /\ \A w \in DOMAIN Table' : window[w] # "absent"]_vars

\* C27 amended: at most one entry per window; the entry of w is removed when
\* the redraw of w is executed; the entry of a window that is no longer known
\* is removed by the first check at which it is due, so at the end of a
\* callback every entry of an unknown window is one that is not due yet.
C27_RemovedWhenExecutedOrClosedAndDue ==
    [][(last'.op \in CheckOps /\ phase' # "terminated")
          => /\ OneEntryPerWindow
             /\ RedrawnEntryRemoved
             /\ \A w \in DOMAIN Table' : window[w] = "absent" => now < Table'[w]]_vars

\* C27 witness: the redraw of w1 was executed and w1 has no entry, while w2,
\* which the Application no longer knows, keeps an entry that is not due yet.
C27_Witness ==
    /\ last.op = "redraw_requested" /\ last.win = "w1"
    /\ "w1" \notin DOMAIN Table
    /\ window["w2"] = "absent"
    /\ "w2" \in DOMAIN Table /\ now < Table["w2"]

(***************************************************************************)
(* Properties of the snapshot a save thread writes.                         *)
(***************************************************************************)
\* Index i holds the same thread before and after the step (a joined thread
\* is taken from the end and a spawned one is put there).
SameThread(i) ==
    /\ i \in DOMAIN save_threads /\ i \in DOMAIN save_threads'
    /\ save_threads'[i].state = "spawned" => save_threads[i].state = "spawned"

\* C28: the snapshot of a save thread is private.  flush() clones the live map
\* and the thread it spawns holds that clone; no step changes the clone of a
\* thread, so a step that changes the live map (a set call) changes no
\* thread; a step of a save thread leaves the live map and its dirty flag as
\* they are; and what a save writes is the clone, the map at the flush call.
C28_SnapshotIsPrivate ==
    [][/\ (flush_pc = "idle" /\ flush_pc' # "idle") => flush_kv' = kv
       /\ (flush_pc # "idle" /\ flush_pc' # "idle") => flush_kv' = flush_kv
       /\ \A i \in DOMAIN save_threads' :
             IF SameThread(i)
             THEN save_threads'[i].kv = save_threads[i].kv
             ELSE save_threads'[i].kv = flush_kv
       /\ kv' # kv => (save_threads' = save_threads /\ disk' = disk)
       /\ disk' # disk => (kv' = kv /\ dirty' = dirty)
       /\ (disk' # disk /\ disk'.state = "written")
             => \E i \in DOMAIN save_threads :
                   /\ save_threads[i].state \in {"created", "writing"}
                   /\ save_threads'[i].state = "done"
                   /\ disk'.kv = save_threads[i].kv]_vars

\* C28 witness: a set call changed the live map while a save was writing; the
\* save then ended and the file holds its snapshot, not the live map.
C28_Witness ==
    /\ store_state = "live" /\ slast.op = "set_string" /\ slast.prev = "flush_spawn"
    /\ Len(save_threads) = 1
    /\ save_threads[1].state = "done" /\ save_threads[1].ok
    /\ disk = File("written", save_threads[1].kv)
    /\ kv # save_threads[1].kv

(***************************************************************************)
(* Properties of the cached event loop.                                     *)
(***************************************************************************)
\* C29: a failure to construct the event loop is returned as an error, the
\* application is not run and nothing is cached, so a return-to-caller run
\* that finds the cell empty attempts the construction (again); an event
\* loop that was constructed is cached, with_event_loop constructs at most
\* one per thread, and every later return-to-caller run on the thread uses it
\* without constructing another.
C29_EventLoopCachedOncePerThread ==
    [][LET l == launched'
           t == l.thread
       IN  /\ l.build = "failed"
                 => /\ l.ret = "Err" /\ ~l.app_ran
                    /\ EVENT_LOOP' = EVENT_LOOP /\ loops_created' = loops_created
           /\ (l.return_to_caller /\ EVENT_LOOP[t] = NoEventLoop)
                 => /\ l.build \in {"built", "failed"}
                    /\ l.build = "built" => (EVENT_LOOP'[t] = l.used /\ l.used # NoEventLoop)
           /\ (l.return_to_caller /\ EVENT_LOOP[t] # NoEventLoop)
                 => /\ l.build = "none" /\ l.app_ran
                    /\ l.used = EVENT_LOOP[t]
                    /\ EVENT_LOOP' = EVENT_LOOP
           /\ \A x \in Threads : loops_created'[x] <= 1]_vars

\* C29 witness: on t1 a construction failed, a later run constructed the event
\* loop, and the last return-to-caller run used the cached one.
C29_Witness ==
    /\ launched.thread = "t1" /\ launched.return_to_caller
    /\ launched.build = "none" /\ launched.app_ran
    /\ launched.used = 1 /\ EVENT_LOOP["t1"] = 1
    /\ loops_created["t1"] = 1 /\ loops_failed["t1"] >= 1

(***************************************************************************)
(* Liveness of scheduled repaints.                                          *)
(***************************************************************************)
\* The redraw of w is executed in the step: run_ui_and_paint runs on w.
RedrawExecuted(w) == w \in last'.painted

\* C30: on a platform that honours the directive and with time advancing,
\* while the loop runs every scheduled repaint of a window that keeps existing
\* and is not minimized leads to a redraw request for the window (or to its
\* redraw being executed before); and an entry of such a window leaves the
\* table only in a step that executes the redraw of the window.
C30_ScheduledRepaintIsRequested ==
    /\ \A w \in Windows :
          (w \in DOMAIN Table)
             ~> \/ w \in last.redraws
                \/ w \in last.painted
                \/ window[w] # "normal"
                \/ phase # "running"
    /\ [][\A w \in Windows :
            (w \in DOMAIN Table /\ w \notin DOMAIN Table' /\ window[w] = "normal")
               => RedrawExecuted(w)]_vars

\* C30 witness: a repaint of w1 was scheduled for a later instant, time has
\* passed, and a wake-up of the loop requested the redraw of w1, whose entry
\* is still in the table.
C30_Witness ==
    /\ last.op = "new_events" /\ "w1" \in last.redraws
    /\ "w1" \in DOMAIN Table /\ Table["w1"] > 0 /\ Table["w1"] <= now
    /\ window["w1"] = "normal" /\ phase = "running"

(***************************************************************************)
(* Properties of dropping the store and of the dirty flag.                  *)
(***************************************************************************)
\* C31: dropping the store joins the save thread in flight.  In the step in
\* which drop returns no save thread is running, before or after it; and if
\* the last flush spawned a thread, that thread has ended and, when each of
\* its steps succeeded, the file holds exactly its snapshot.
C31_DropJoinsSave ==
    [][(store_state = "live" /\ store_state' = "dropped")
          => /\ Alive(save_threads) = {} /\ Alive(save_threads') = {}
             /\ ~last_save_join_handle'
             /\ last_save_join_handle
                   => LET th == save_threads[Len(save_threads)]
                      IN  /\ th.state = "done"
                          /\ th.ok => disk' = File("written", th.kv)]_vars

\* C31 witness: the store was dropped right after a flush that spawned a save
\* thread; the thread has ended and the file holds the map with key "b",
\* which only that save can have written.
C31_Witness ==
    /\ store_state = "dropped"
    /\ slast.op = "drop" /\ slast.prev = "flush_spawn"
    /\ "b" \in DOMAIN kv
    /\ disk = File("written", kv)
    /\ Alive(save_threads) = {}

\* The step is a call of flush() (its first part, to the join).
FlushCalled ==
    /\ slast'.op = "flush" /\ flush_pc = "idle"
    /\ save_threads' = save_threads /\ disk' = disk /\ kv' = kv

\* C32: flush() clears the dirty flag before the save is attempted and nothing
\* but a value-changing set sets it again: the store is not dirty when
\* flush() returns, whether the thread was spawned or not; no step of a save
\* thread, successful or failed, changes the flag; and a flush() of a store
\* that is not dirty starts no save.
C32_FlushClearsDirtyForGood ==
    [][/\ FlushCalled
             => /\ ~dirty'
                /\ ~dirty => (flush_pc' = "idle" /\ last_save_join_handle' = last_save_join_handle)
                /\ dirty => flush_pc' # "idle"
       /\ (flush_pc # "idle" /\ flush_pc' = "idle") => ~dirty'
       /\ (save_threads' # save_threads \/ disk' # disk) => dirty' = dirty
       /\ (~dirty /\ dirty') => (kv' # kv /\ slast'.op = "set_string")]_vars

\* C32 witness: the spawn of the save thread failed, so the map with key "b"
\* was never written; the flush() that followed found the store not dirty
\* and started no save.
C32_Witness ==
    /\ store_state = "live" /\ flush_pc = "idle"
    /\ slast.op = "flush" /\ slast.prev = "flush_spawn"
    /\ ~dirty /\ ~last_save_join_handle /\ save_threads = <<>>
    /\ "b" \in DOMAIN kv /\ disk.kv # kv

(***************************************************************************)
(* Properties of the synchronous redraw and of the state-save hook.         *)
(***************************************************************************)
\* C33: under the synchronous RepaintNow policy a result of the synchronous
\* redraw that is not an error changes nothing by itself: whatever it is, the
\* table and the directive are those of removing the entry of the window and
\* checking, no exit is requested and no result is recorded.
C33_SyncResultOnlyReadForError ==
    [][(last'.res = "RepaintNow" /\ target_windows /\ last'.sync \notin {"none", "Err"})
          => LET tbl == Remove(HandledTable, last'.w)
             IN  /\ Table' = CheckTable(tbl)
                 /\ control_flow' = CheckFlow(tbl, control_flow)
                 /\ phase' = phase
                 /\ return_result' = return_result
                 /\ callback_failed' = callback_failed
                 /\ last_effects' = <<>>]_vars

\* C33 witness: the synchronous redraw of w1 returned Exit; the loop runs on,
\* no exit was requested and w1 has no entry.
C33_Witness ==
    /\ target_windows
    /\ last.res = "RepaintNow" /\ last.w = "w1" /\ last.sync = "Exit"
    /\ phase = "running" /\ last_effects = <<>>
    /\ "w1" \notin DOMAIN Table

\* C34: in every run that ends save_and_destroy has been called exactly once,
\* and not before the end.  A return-to-caller run ends with the exiting
\* callback, which makes the call; it is never ended by the handler.  A run
\* that the Exit / error handling ends made the call in that handling, right
\* before std::process::exit.
C34_SavedExactlyOnce ==
    /\ save_and_destroy_calls = IF phase \in {"exited", "terminated"} THEN 1 ELSE 0
    /\ run_and_return => phase # "terminated"
    /\ phase = "exited"
          => last.op = "exiting" /\ last_effects = <<"save_and_destroy">>
    /\ phase = "terminated"
          => /\ ~run_and_return /\ last.op # "exiting"
             /\ SubSeq(last_effects, Len(last_effects) - 1, Len(last_effects))
                   = <<"save_and_destroy", "process::exit(0)">>

\* C34 witness: a return-to-caller run in which a callback failed and the loop
\* was asked to exit has ended with the exiting callback, after one call of
\* save_and_destroy.
C34_Witness ==
    /\ run_and_return /\ phase = "exited"
    /\ callback_failed /\ return_result = "Err"
    /\ last.op = "exiting"
    /\ save_and_destroy_calls = 1

(***************************************************************************)
(* Properties of the file browser.                                          *)
(***************************************************************************)
\* C35: at most one size-calculation thread of the folder is running at any
\* time, however the frames of the popup interleave with the updates the
\* thread makes of calculating, size and error.
C35_OneSizeThreadPerFolder == Cardinality(Calculations(size_threads)) <= 1

=============================================================================
